---- MODULE Spec2Model ----
(***************************************************************************)
(* Model of utils/prefix_tree.py: the prefix tree used for left factoring. *)
(*                                                                         *)
(* A grammar element is its name, a name is a non-empty string, and a      *)
(* string is a sequence of characters.  An alternative is a sequence of    *)
(* names.  Python dictionaries keep insertion order, so a dictionary is a  *)
(* sequence of entries [key, ref]; ref is the identity of the list object  *)
(* the entry holds, and heap[ref] is that list's current content.  Two     *)
(* dictionaries that hold the same list object (prefixes[key] = alts,      *)
(* line 110) hold the same ref.                                            *)
(***************************************************************************)
EXTENDS Integers, Sequences, FiniteSets, TLC

\* The alphabet element names are written in.
Chars == {"a", "b"}

\* Total number of characters in the names of one non-terminal's alternatives.
MaxChars == 6

\* The same, for the wider set of inputs of SpecWide.
MaxCharsWide == 7

\* How many times get_factored_out is called on one tree.
MaxCalls == 2

VARIABLES
    nt0,             \* the alternatives of the non-terminal before construction
    non_terminal,    \* self.non_terminal: the alternatives as they are now
    it,              \* position of "for alt in self.non_terminal" (line 45)
    nodes,           \* arena of PrefixNode objects, by identity 1..Len(nodes)
    children,        \* self.children: the root nodes in insertion order
    factored_table,  \* self.__factored_table
    heap,            \* content of every list object held by a table entry
    prefixes,        \* the dictionary built by get_factored_out (line 102)
    keys,            \* the sorted key list of __add_leftovers (line 153)
    ki,              \* position of "for key in keys" (line 155)
    todo,            \* nodes __create_constellations has still to examine
    pc,              \* where the program is
    calls,           \* number of get_factored_out calls started
    plans            \* the plans returned so far, as they were when returned

vars == <<nt0, non_terminal, it, nodes, children, factored_table, heap,
          prefixes, keys, ki, todo, pc, calls, plans>>

----------------------------------------------------------------------------
(* Strings and alternatives *)

\* s[0:-1]
DropLast(s) == IF Len(s) = 0 THEN <<>> ELSE SubSeq(s, 1, Len(s) - 1)

RECURSIVE __to_string(_)
\* Concatenation of the element names of an alternative.
__to_string(alternative) ==
    IF alternative = <<>> THEN <<>>
    ELSE Head(alternative) \o __to_string(Tail(alternative))

IsPrefix(p, s) == Len(p) <= Len(s) /\ SubSeq(s, 1, Len(p)) = p

----------------------------------------------------------------------------
(* Dictionaries *)

DictKeys(d) == {d[j].key : j \in 1..Len(d)}

HasKey(d, k) == k \in DictKeys(d)

\* d[k], for a key that is present
Ref(d, k) == (CHOOSE j \in 1..Len(d) : d[j].key = k)

RefOf(d, k) == d[Ref(d, k)].ref

\* del d[k]
DictDel(d, k) ==
    LET Keep(e) == e.key # k IN SelectSeq(d, Keep)

HeapAppend(h, r, x) == [h EXCEPT ![r] = Append(@, x)]

\* list.remove(x): delete the first item equal to x
ListRemove(l, x) ==
    IF \E j \in 1..Len(l) : l[j] = x
    THEN LET p == CHOOSE j \in 1..Len(l) :
                     l[j] = x /\ \A m \in 1..(j - 1) : l[m] # x
         IN  SubSeq(l, 1, p - 1) \o SubSeq(l, p + 1, Len(l))
    ELSE l

----------------------------------------------------------------------------
(* The inputs: every non-terminal with at most MaxChars characters *)

RECURSIVE ParseNT(_, _, _, _)
\* The non-terminal spelled by the characters s, where cut[j] says what
\* starts at character j + 1: 0 the same name goes on, 1 a new element,
\* 2 a new alternative.
ParseNT(s, cut, j, nt) ==
    IF j > Len(s) THEN nt
    ELSE LET n  == Len(nt)
             a  == nt[n]
             m  == Len(a)
             c  == <<s[j]>>
         IN  CASE cut[j - 1] = 0 ->
                    ParseNT(s, cut, j + 1,
                            [nt EXCEPT ![n] = [a EXCEPT ![m] = @ \o c]])
               [] cut[j - 1] = 1 ->
                    ParseNT(s, cut, j + 1, [nt EXCEPT ![n] = Append(a, c)])
               [] OTHER ->
                    ParseNT(s, cut, j + 1, Append(nt, <<c>>))

\* The non-terminal spelled by s and cut.
NonTerminal(s, cut) == ParseNT(s, cut, 2, << << <<s[1]>> >> >>)

----------------------------------------------------------------------------
(* PrefixNode *)

PrefixNode(el, prefix_length, parent) ==
    [prefix |-> el, prefix_length |-> prefix_length, parent |-> parent,
     children |-> <<>>, alts |-> <<>>]

\* Index of the child of node n named el_name, 0 for None.
get_child_named(ns, n, el_name) ==
    LET ch == ns[n].children IN
    IF \E j \in 1..Len(ch) : ns[ch[j]].prefix = el_name
    THEN CHOOSE j \in 1..Len(ch) :
             ns[ch[j]].prefix = el_name
             /\ \A m \in 1..(j - 1) : ns[ch[m]].prefix # el_name
    ELSE 0

\* The root named name in self.children, 0 if there is none.
get_tree_head(ns, roots, name) ==
    IF \E j \in 1..Len(roots) : ns[roots[j]].prefix = name
    THEN roots[CHOOSE j \in 1..Len(roots) : ns[roots[j]].prefix = name]
    ELSE 0

----------------------------------------------------------------------------
(* Construction *)

RECURSIVE Descend(_, _, _)
\* The while loop of create_chain: walk down from start_node, creating the
\* nodes that are missing, until one element is left.
Descend(ns, start_node, elements) ==
    IF Len(elements) > 1
    THEN LET head == elements[1]
             matching_child == get_child_named(ns, start_node, head)
         IN  IF matching_child = 0
             THEN LET id  == Len(ns) + 1
                      new == PrefixNode(head, ns[start_node].prefix_length + 1,
                                        start_node)
                      ns2 == Append([ns EXCEPT ![start_node].children =
                                                   Append(@, id)], new)
                  IN  Descend(ns2, id, Tail(elements))
             ELSE Descend(ns, ns[start_node].children[matching_child],
                          Tail(elements))
    ELSE [nodes |-> ns, node |-> start_node, elements |-> elements]

\* A create_chain that files every alternative under its full signature.
GroupKey_FullSignature(full_alt) == __to_string(full_alt)

\* The key create_chain registers full_alt under.
GroupKey(full_alt) ==
    IF Len(full_alt) = 1 THEN __to_string(full_alt)
    ELSE DropLast(__to_string(full_alt))

\* The alternative the iteration of the non-terminal hands out at position j:
\* the list the non-terminal holds, not a copy of it.
NextAlternative(nt, j) == nt[j]

\* The state after PrefixTree.__init__ has run lines 37 to 40, for the
\* non-terminal g.
Constructed(g) ==
    /\ nt0 = g
    /\ non_terminal = nt0
    /\ it = 1
    /\ nodes = <<>>
    /\ children = <<>>
    /\ factored_table = <<>>
    /\ heap = <<>>
    /\ prefixes = <<>>
    /\ keys = <<>>
    /\ ki = 1
    /\ todo = <<>>
    /\ pc = "create_tree"
    /\ calls = 0
    /\ plans = <<>>

\* Construction for each non-terminal of at most max characters.
InitUpTo(max) ==
    \E n \in 1..max : \E s \in [1..n -> Chars] :
        \E cut \in [1..(n - 1) -> {0, 1, 2}] :
            Constructed(NonTerminal(s, cut))

Init == InitUpTo(MaxChars)

InitWide == InitUpTo(MaxCharsWide)

\* One round of the loop of create_tree, with its call of create_chain.
create_tree ==
    /\ pc = "create_tree"
    /\ it <= Len(non_terminal)
    /\ LET alt     == NextAlternative(non_terminal, it)
           el      == alt[1]
           old     == get_tree_head(nodes, children, el)
           node    == IF old # 0 THEN old ELSE Len(nodes) + 1
           ns1     == IF old # 0 THEN nodes
                      ELSE Append(nodes, PrefixNode(el, 0, 0))
           alt_cpy == alt
           w       == Descend(ns1, node, Tail(alt))
           alt_str == GroupKey(alt_cpy)
           fresh   == ~HasKey(factored_table, alt_str)
           ref     == IF fresh THEN Len(heap) + 1
                      ELSE RefOf(factored_table, alt_str)
           h1      == IF fresh THEN Append(heap, <<>>) ELSE heap
       IN  /\ children' = IF old # 0 THEN children ELSE Append(children, node)
           /\ nodes' = [w.nodes EXCEPT ![w.node].alts = Append(@, alt_cpy)]
           /\ non_terminal' = [non_terminal EXCEPT ![it] = w.elements]
           /\ factored_table' =
                  IF fresh
                  THEN Append(factored_table, [key |-> alt_str, ref |-> ref])
                  ELSE factored_table
           /\ heap' = HeapAppend(h1, ref, alt_cpy)
    /\ it' = it + 1
    /\ pc' = IF it = Len(non_terminal) THEN "built" ELSE "create_tree"
    /\ UNCHANGED <<nt0, prefixes, keys, ki, todo, calls, plans>>

----------------------------------------------------------------------------
(* Chain contraction *)

RECURSIVE PostOrder(_, _)
\* The order in which the recursion of __create_constellations reaches
\* line 128 for the nodes of the subtrees rooted at ids: the children of a
\* node before the node.
PostOrder(ns, ids) ==
    IF ids = <<>> THEN <<>>
    ELSE PostOrder(ns, ns[Head(ids)].children) \o <<Head(ids)>>
         \o PostOrder(ns, Tail(ids))

\* A node that line 128 lets through.
Promotes(ns, head) == Len(ns[head].alts) = 1 /\ ns[head].parent # 0

\* A line 138 that trims the first character instead of the last.
ParentKey_TrimsFront(alt) == Tail(DropLast(__to_string(alt)))

\* The key line 140 appends to.
ParentKey(alt) == DropLast(DropLast(__to_string(alt)))

\* The key line 141 deletes.
ChildKey(alt) == DropLast(__to_string(alt))

\* Call of get_factored_out: lines 102 to 106 start the traversal of the roots.
get_factored_out ==
    /\ pc \in {"built", "returned"}
    /\ calls < MaxCalls
    /\ calls' = calls + 1
    /\ todo' = PostOrder(nodes, children)
    /\ pc' = "constellations"
    /\ UNCHANGED <<nt0, non_terminal, it, nodes, children, factored_table,
                   heap, prefixes, keys, ki, plans>>

\* Lines 125 to 141 for the next node of the traversal.
create_constellations ==
    /\ pc = "constellations"
    /\ todo # <<>>
    /\ LET head == Head(todo) IN
       IF ~Promotes(nodes, head)
       THEN /\ pc' = "constellations"
            /\ UNCHANGED <<nodes, factored_table, heap>>
       ELSE LET alt    == nodes[head].alts[1]
                parent == nodes[head].parent
                alt_prefix        == ChildKey(alt)
                alt_parent_prefix == ParentKey(alt)
            IN  /\ nodes' = [nodes EXCEPT ![parent].alts = Append(@, alt),
                                          ![head].alts = <<>>]
                /\ IF ~HasKey(factored_table, alt_parent_prefix)
                   THEN \* line 140 raises KeyError
                        /\ pc' = "error"
                        /\ UNCHANGED <<factored_table, heap>>
                   ELSE /\ heap' = HeapAppend(heap,
                                       RefOf(factored_table, alt_parent_prefix),
                                       alt)
                        /\ IF ~HasKey(factored_table, alt_prefix)
                           THEN \* line 141 raises KeyError
                                /\ pc' = "error"
                                /\ UNCHANGED factored_table
                           ELSE /\ pc' = "constellations"
                                /\ factored_table' =
                                       DictDel(factored_table, alt_prefix)
    /\ todo' = Tail(todo)
    /\ UNCHANGED <<nt0, non_terminal, it, children, prefixes, keys, ki,
                   calls, plans>>

----------------------------------------------------------------------------
(* Leftover reconciliation *)

RECURSIVE SortedFrom(_, _)
\* sorted(ks, key=len): stable, so keys of one length keep their order.
SortedFrom(ks, n) ==
    IF \A j \in 1..Len(ks) : Len(ks[j]) < n THEN <<>>
    ELSE LET HasLen(k) == Len(k) = n
         IN  SelectSeq(ks, HasLen) \o SortedFrom(ks, n + 1)

SortedKeys(d) == SortedFrom([j \in 1..Len(d) |-> d[j].key], 0)

RECURSIVE FilterLoop(_, _, _, _)
\* Lines 168 to 171.  filter() is lazy: it reads the list prefixes[leftover_key]
\* item by item, by position, while the loop body removes items from that
\* same list.  st is [prefixes, heap, err].
FilterLoop(st, key, leftover_key, idx) ==
    LET src == RefOf(st.prefixes, leftover_key)
        l   == st.heap[src]
    IN  IF idx > Len(l) THEN st
        ELSE IF __to_string(l[idx]) # key
        THEN FilterLoop(st, key, leftover_key, idx + 1)
        ELSE IF ~HasKey(st.prefixes, key)
        THEN [st EXCEPT !.err = TRUE]     \* line 170 raises KeyError
        ELSE LET dst == RefOf(st.prefixes, key)
                 h1  == HeapAppend(st.heap, dst, l[idx])
                 h2  == [h1 EXCEPT ![src] = ListRemove(@, l[idx])]
             IN  FilterLoop([st EXCEPT !.heap = h2], key, leftover_key,
                            idx + 1)

\* One round of the loop of __add_leftovers (lines 155 to 174) for key, where
\* ks is the list of line 153.
LeftoverRound(st, ks, key) ==
    LET leftover_key == DropLast(key) IN
    IF Len(leftover_key) = 0 THEN st
    ELSE IF ~(\E j \in 1..Len(ks) : ks[j] = leftover_key) THEN st
    ELSE IF ~HasKey(st.prefixes, leftover_key)
    THEN [st EXCEPT !.err = TRUE]         \* line 162 raises KeyError
    ELSE LET r == FilterLoop(st, key, leftover_key, 1) IN
         IF r.err THEN r
         ELSE IF Len(r.heap[RefOf(r.prefixes, leftover_key)]) = 0
         THEN [r EXCEPT !.prefixes = DictDel(@, leftover_key)]
         ELSE r

\* Lines 108 to 112 and line 153: the new dictionary holds the list objects
\* of the factoring table.
copy_table ==
    /\ pc = "constellations"
    /\ todo = <<>>
    /\ prefixes' = factored_table
    /\ keys' = SortedKeys(factored_table)
    /\ ki' = 1
    /\ pc' = "add_leftovers"
    /\ UNCHANGED <<nt0, non_terminal, it, nodes, children, factored_table,
                   heap, todo, calls, plans>>

add_leftovers ==
    /\ pc = "add_leftovers"
    /\ ki <= Len(keys)
    /\ LET r == LeftoverRound([prefixes |-> prefixes, heap |-> heap,
                               err |-> FALSE], keys, keys[ki])
       IN  /\ prefixes' = r.prefixes
           /\ heap' = r.heap
           /\ pc' = IF r.err THEN "error" ELSE "add_leftovers"
    /\ ki' = ki + 1
    /\ UNCHANGED <<nt0, non_terminal, it, nodes, children, factored_table,
                   keys, todo, calls, plans>>

\* The dictionary d as a value: its keys in order, each with its list.
Plan(d, h) == [j \in 1..Len(d) |-> [key |-> d[j].key, alts |-> h[d[j].ref]]]

\* Line 114.
return_prefixes ==
    /\ pc = "add_leftovers"
    /\ ki > Len(keys)
    /\ plans' = Append(plans, Plan(prefixes, heap))
    /\ pc' = "returned"
    /\ UNCHANGED <<nt0, non_terminal, it, nodes, children, factored_table,
                   heap, prefixes, keys, ki, todo, calls>>

Next ==
    \/ create_tree
    \/ get_factored_out
    \/ create_constellations
    \/ copy_table
    \/ add_leftovers
    \/ return_prefixes

Spec == Init /\ [][Next]_vars

SpecWide == InitWide /\ [][Next]_vars
----------------------------------------------------------------------------
(* Vocabulary of the properties *)

Range(l) == {l[j] : j \in 1..Len(l)}

\* How many times x occurs in the list l.
Count(l, x) == Cardinality({j \in 1..Len(l) : l[j] = x})

RECURSIVE Total(_, _)
\* How many times x occurs in the lists of the plan p.
Total(p, x) ==
    IF p = <<>> THEN 0 ELSE Count(Head(p).alts, x) + Total(Tail(p), x)

\* The first call of get_factored_out has returned.
Returned == Len(plans) >= 1

\* The first call of get_factored_out has raised.
Raised == pc = "error" /\ calls = 1

SingleCharNames(nt) ==
    \A j \in 1..Len(nt) : \A m \in 1..Len(nt[j]) : Len(nt[j][m]) = 1

DistinctFirstSymbols(nt) ==
    \A j, m \in 1..Len(nt) : j # m => nt[j][1] # nt[m][1]

\* x is in the list the dictionary d holds under k.
Filed(d, h, k, x) == HasKey(d, k) /\ x \in Range(h[RefOf(d, k)])

RECURSIVE LabelPath(_, _)
\* The labels from the root down to node n, concatenated.
LabelPath(ns, n) ==
    IF ns[n].parent = 0 THEN ns[n].prefix
    ELSE LabelPath(ns, ns[n].parent) \o ns[n].prefix

\* Every key of d is a prefix of the signature of each alternative under it.
KeysArePrefixes(d, h) ==
    \A j \in 1..Len(d) : \A x \in Range(h[d[j].ref]) :
        IsPrefix(d[j].key, __to_string(x))

----------------------------------------------------------------------------
(* Properties *)

\* C1: when the first get_factored_out returns, every alternative occurs in
\* the lists of the plan exactly as often as in the input, and the plan holds
\* nothing else, so the list lengths sum to the number of alternatives.
C1_PlanPartitionsInput ==
    Returned =>
        /\ \A x \in Range(nt0) : Total(plans[1], x) = Count(nt0, x)
        /\ \A j \in 1..Len(plans[1]) : Range(plans[1][j].alts) \subseteq Range(nt0)

\* C2: the first get_factored_out never raises.
C2_NeverRaises == ~Raised

\* C3: in the returned plan, an alternative whose signature is a key K that
\* holds longer alternatives is filed under K and under no shorter key.
C3_LeftoverUnderItsKey ==
    Returned =>
        \A j \in 1..Len(plans[1]) : \A x \in Range(nt0) :
            LET e == plans[1][j] IN
            (/\ \E y \in Range(e.alts) : Len(__to_string(y)) > Len(e.key)
             /\ __to_string(x) = e.key)
            => /\ x \in Range(e.alts)
               /\ \A m \in 1..Len(plans[1]) :
                      Len(plans[1][m].key) < Len(e.key)
                      => x \notin Range(plans[1][m].alts)

\* One group per alternative, holding that alternative alone under KeyFor.
OneGroupEach(p, nt, KeyFor(_)) ==
    /\ Len(p) = Len(nt)
    /\ \A j \in 1..Len(nt) : \E m \in 1..Len(p) :
           p[m].alts = <<nt[j]>> /\ p[m].key = KeyFor(nt[j])

FirstSymbol(alt) == alt[1]

ShortSingleChar(nt) ==
    /\ SingleCharNames(nt)
    /\ DistinctFirstSymbols(nt)
    /\ \A j \in 1..Len(nt) : Len(nt[j]) <= 2

C5_NonTerminalUnchanged == non_terminal = nt0

\* C6: in every state, each key of the factoring table and of the plan under
\* construction is a prefix of the signature of every alternative under it.
C6_KeysArePrefixes ==
    /\ KeysArePrefixes(factored_table, heap)
    /\ KeysArePrefixes(prefixes, heap)

\* A moved leftover is on file in a returned plan.
C6_Witness ==
    /\ pc = "returned"
    /\ \E j \in 1..Len(prefixes) : \E x \in Range(heap[prefixes[j].ref]) :
           Len(x) >= 2 /\ prefixes[j].key = __to_string(x)

\* The signature of alt without the name of its last element.
WithoutLastElement(alt) == __to_string(DropLast(alt))

\* C7: construction files an alternative of two or more elements under its
\* signature without its last element's name, and a one-element alternative
\* under its full signature.
C7_KeyDropsLastElement ==
    pc \in {"create_tree", "built"}
    => \A j \in 1..(it - 1) :
           Filed(factored_table, heap,
                 IF Len(nt0[j]) = 1 THEN __to_string(nt0[j])
                 ELSE WithoutLastElement(nt0[j]),
                 nt0[j])

\* The table agrees with the tree: every alternative in a node's alts is
\* filed under the node's label path, and no entry is empty.
InStep(ns, d, h) ==
    /\ \A n \in 1..Len(ns) : \A x \in Range(ns[n].alts) :
           Filed(d, h, LabelPath(ns, n), x)
    /\ \A j \in 1..Len(d) : h[d[j].ref] # <<>>

\* C8: a promotion that starts with the table in step with the tree does not
\* raise, and leaves the table in step with the tree: the alternative is
\* filed under the parent's label path and the child's entry is gone.
C8_PromotionKeepsStep ==
    [][(/\ pc = "constellations"
        /\ todo # <<>>
        /\ Promotes(nodes, Head(todo))
        /\ InStep(nodes, factored_table, heap))
       => (/\ pc' # "error"
           /\ InStep(nodes', factored_table', heap'))]_vars

RECURSIVE RunRounds(_, _, _)
\* __add_leftovers with the keys taken in the order ks, from round j on.
RunRounds(st, ks, j) ==
    IF j > Len(ks) \/ st.err THEN st
    ELSE RunRounds(LeftoverRound(st, ks, ks[j]), ks, j + 1)

\* The orders of the keys of d that are non-decreasing in length.
LengthOrders(d) ==
    LET n == Len(d) IN
    { o \in [1..n -> DictKeys(d)] :
        /\ \A j, m \in 1..n : j # m => o[j] # o[m]
        /\ \A j \in 1..(n - 1) : Len(o[j]) <= Len(o[j + 1]) }

\* The mapping from keys to sets of alternatives.
Mapping(st) ==
    { <<st.prefixes[j].key, Range(st.heap[st.prefixes[j].ref])>> :
        j \in 1..Len(st.prefixes) }

\* C9: for the table chain contraction produced, every order of the keys that
\* is non-decreasing in length completes and gives the same mapping.
C9_OrderIndependent ==
    (pc = "add_leftovers" /\ ki = 1 /\ calls = 1)
    => LET st == [prefixes |-> prefixes, heap |-> heap, err |-> FALSE]
           rs == { RunRounds(st, o, 1) : o \in LengthOrders(prefixes) }
       IN  /\ \A r \in rs : ~r.err
           /\ \A r1, r2 \in rs : Mapping(r1) = Mapping(r2)

\* C10: once the first call has returned, the second call does not raise and
\* returns the plan the first call returned.
C10_SecondCallSamePlan ==
    /\ ~(pc = "error" /\ calls = 2)
    /\ Len(plans) >= 2 => plans[2] = plans[1]
====
